---- MODULE Spec2Model ----
(***************************************************************************)
(* Model of src/src/models.ts: the Events pub/sub class, the Model class   *)
(* (a record with tracked fields) and the Collection class (an ordered,    *)
(* pk-indexed list of models).                                             *)
(*                                                                         *)
(* Every object is named by a string.  JavaScript values are strings too:  *)
(* Undefined stands for `undefined`, a collection or model name stands for *)
(* a reference to that object, any other string is a primitive.            *)
(***************************************************************************)
EXTENDS Integers, Sequences, FiniteSets, TLC

\* ------------------------------------------------------------------ bounds
MaxHandle == 4      \* no bus hands out more than this many handles
MaxAdds == 4        \* add calls on one collection's models, in all
MaxTracked == 3      \* add calls in the dirty-tracking specification
MaxBinds == 3        \* collections assigned to r.foos, in all
MaxItems == 3        \* length of models where positions may be invalid
MaxOffset == 2      \* move offsets range over -MaxOffset..MaxOffset
MaxDepth == 6       \* nesting of callbacks before the call stack overflows

\* --------------------------------------------------------------- universe
Undefined == "<undefined>"
NaN == "NaN"

FooModels == {"m1", "m2", "m3"}        \* class FooModel { qux = 5 }
CollectedModels == {"r"}               \* class CollectedModel { foos }
Models == FooModels \cup CollectedModels
Collections == {"s", "t"}
Buses == {"ev"}                        \* a bare `new Events()`
Entities == Models \cup Collections \cup Buses

\* the decorated fields (the one fieldNames array is shared by all classes);
\* FooModel.bar, which no operation below writes, is left out
FieldNames == <<"pk", "qux", "foos">>
FieldSet == {FieldNames[i] : i \in 1..Len(FieldNames)}

PKs == {"a", "b", "c"}
NoErr == "none"

VARIABLES
    eventIndex,     \* Events.eventIndex of every object
    map,            \* Events.map: name -> array of handles (absent = no key)
    events,         \* Events.events: handle -> callback (a closure record)
    fields,         \* Model.fields
    mappedEvents,   \* Model.mappedEvents
    persisted,      \* Model.persisted (field map) / Collection.persisted (pks)
    clean,          \* Model.clean / Collection.clean
    models,         \* Collection.models
    modelMap,       \* Collection.modelMap: pk -> ModelMeta object
    meta,           \* the ModelMeta objects, by identity
    emitted,        \* the trigger calls of the last operation, in order
    called,         \* the user callbacks run by the last operation, in order
    ret             \* the last operation, its return value and its error

vars == <<eventIndex, map, events, fields, mappedEvents, persisted, clean,
          models, modelMap, meta, emitted, called, ret>>

\* ---------------------------------------------------------------- helpers
Put(f, k, v) == [x \in (DOMAIN f) \cup {k} |-> IF x = k THEN v ELSE f[x]]
Del(f, k) == [x \in (DOMAIN f) \ {k} |-> f[x]]
Lookup(f, k) == IF k \in DOMAIN f THEN f[k] ELSE Undefined
Range(s) == {s[i] : i \in 1..Len(s)}
Max(a, b) == IF a > b THEN a ELSE b
Min(a, b) == IF a < b THEN a ELSE b

\* Array.prototype.indexOf: 0-based position of the first x, or -1
IndexOf(s, x) ==
    IF \E i \in 1..Len(s) : s[i] = x
    THEN (CHOOSE i \in 1..Len(s) : s[i] = x /\ \A j \in 1..(i-1) : s[j] # x) - 1
    ELSE -1

\* Array.prototype.splice(start, deleteCount, ...items): a negative start
\* counts from the end of the array
SpliceStart(s, start) ==
    IF start < 0 THEN Max(Len(s) + start, 0) ELSE Min(start, Len(s))
Splice(s, start, deleteCount, items) ==
    LET a == SpliceStart(s, start)
        d == Min(Max(deleteCount, 0), Len(s) - a)
    IN SubSeq(s, 1, a) \o items \o SubSeq(s, a + d + 1, Len(s))

\* `x instanceof Events`
InstanceOfEvents(x) == x \in Entities
\* the `!=` of Model.changed on values of one type
NotEqual(a, b) == a # b \/ a = NaN
\* the truthiness test of `a || b`
Falsy(x) == x \in {Undefined, "", NaN}

\* the state of the whole heap as one record, threaded through a call
Cur == [eventIndex |-> eventIndex, map |-> map, events |-> events,
        fields |-> fields, mappedEvents |-> mappedEvents,
        persisted |-> persisted, clean |-> clean, models |-> models,
        modelMap |-> modelMap, meta |-> meta,
        emitted |-> <<>>, called |-> <<>>, err |-> NoErr, depth |-> 0,
        val |-> Undefined]

Throw(st, e) == IF st.err # NoErr THEN st ELSE [st EXCEPT !.err = e]

\* ----------------------------------------------------------- class Events
\* what a listener that reads the emitting object would see
Snap(st, e) ==
    IF e \in Models THEN st.fields[e]
    ELSE IF e \in Collections THEN st.models[e] ELSE <<>>
Keys(st, e) == IF e \in Collections THEN DOMAIN st.modelMap[e] ELSE {}

\* Events.on: returns the state; the handle returned is the new eventIndex
On(st, e, name, func) ==
    IF st.err # NoErr THEN st ELSE
    LET evts == IF name \in DOMAIN st.map[e] THEN st.map[e][name] ELSE <<>>
        h == st.eventIndex[e] + 1
    IN [st EXCEPT !.eventIndex[e] = h,
                  !.map[e] = Put(st.map[e], name, Append(evts, h)),
                  !.events[e] = Put(st.events[e], h, func)]

OnHandle(st, e) == st.eventIndex[e] + 1

\* Events.off
Off(st, e, name, h) ==
    IF st.err # NoErr THEN st ELSE
    IF name \notin DOMAIN st.map[e] THEN st ELSE
    LET evts == st.map[e][name]
    IN [st EXCEPT !.map[e][name] = Splice(evts, IndexOf(evts, h), 1, <<>>),
                  !.events[e] = Del(st.events[e], h)]

\* Collection.rebuildMap.  The ModelMeta objects are shared between the old
\* and the new map, so their index changes even when the loop throws before
\* `this.modelMap = newMap`.
RECURSIVE RebuildLoop(_, _, _, _)
RebuildLoop(st, c, i, newMap) ==
    IF st.err # NoErr THEN st
    ELSE IF i > Len(st.models[c]) THEN [st EXCEPT !.modelMap[c] = newMap]
    ELSE
    LET m == st.models[c][i]
    IN  IF m \notin Models THEN Throw(st, "TypeError")
        ELSE
        LET pk == st.fields[m]["pk"]
            ppk == st.persisted[m]["pk"]
            key == IF Falsy(ppk) THEN pk ELSE ppk
            ref == Lookup(st.modelMap[c], key)
        IN  IF ref = Undefined THEN Throw(st, "TypeError")
            ELSE RebuildLoop([st EXCEPT !.meta[ref].index = i - 1],
                             c, i + 1, Put(newMap, pk, ref))

\* a rebuild that leaves the map as it is
rebuildMapSkipped(st, c) == st

rebuildMap(st, c) == RebuildLoop(st, c, 1, <<>>)

RECURSIVE Trigger(_, _, _)
RECURSIVE TriggerLoop(_, _, _, _, _)
RECURSIVE Invoke(_, _)

\* Events.trigger: forEach reads the length once and then walks the live
\* array, skipping the positions that no longer exist
Trigger(st, e, name) ==
    IF st.err # NoErr THEN st ELSE
    LET evts == IF name \in DOMAIN st.map[e] THEN st.map[e][name] ELSE <<>>
        entry == [ent |-> e, name |-> name, snap |-> Snap(st, e),
                  keys |-> Keys(st, e), clean |-> Lookup(st.clean, e)]
    IN TriggerLoop([st EXCEPT !.emitted = Append(st.emitted, entry)],
                   e, name, 1, Len(evts))

TriggerLoop(st, e, name, i, len) ==
    IF st.err # NoErr THEN st
    ELSE IF i > len THEN st
    ELSE IF i > Len(st.map[e][name]) THEN st
    ELSE
    LET h == st.map[e][name][i]
    IN  IF h \notin DOMAIN st.events[e] THEN Throw(st, "TypeError")
        ELSE TriggerLoop(Invoke(st, st.events[e][h]), e, name, i + 1, len)

\* the body of each closure registered with `on`
Invoke(st, cb) ==
    IF st.depth >= MaxDepth THEN Throw(st, "RangeError") ELSE
    LET s0 == [st EXCEPT !.depth = st.depth + 1]
        s1 ==
          CASE cb.kind = "modelField" ->
                 \* Model.set, lines 159-163
                 LET a == [s0 EXCEPT !.clean[cb.owner] = FALSE]
                     b == Trigger(a, cb.owner, "change")
                 IN Trigger(b, cb.owner, "change:" \o cb.arg)
            [] cb.kind = "collChange" ->
                 \* Collection.add, lines 292-296
                 LET p == s0.persisted[cb.owner]
                     a == [s0 EXCEPT
                             !.clean[cb.owner] = FALSE,
                             !.persisted[cb.owner] =
                                Splice(p, IndexOf(p, s0.fields[cb.arg]["pk"]),
                                       1, <<>>)]
                 IN Trigger(a, cb.owner, "change")
            [] cb.kind = "collChangePK" ->
                 \* Collection.add, lines 297-299
                 rebuildMap(s0, cb.owner)
            [] cb.kind = "spy" ->
                 [s0 EXCEPT !.called = Append(s0.called, cb.arg)]
            [] cb.kind = "spyOff" ->
                 \* a listener that notes the call and unsubscribes a handle
                 Off([s0 EXCEPT !.called = Append(s0.called, cb.arg)],
                     cb.owner, cb.arg.name, cb.target)
            [] cb.kind = "spyOn" ->
                 \* a listener that notes the call and subscribes a spy
                 LET a == [s0 EXCEPT !.called = Append(s0.called, cb.arg)]
                 IN On(a, cb.owner, cb.arg.name,
                       [kind |-> "spy", owner |-> cb.owner,
                        arg |-> [name |-> cb.arg.name,
                                 h |-> OnHandle(a, cb.owner)]])
    IN [s1 EXCEPT !.depth = st.depth]

\* ------------------------------------------------------------ class Model
\* Model.get
ModelGet(st, m, property) == Lookup(st.fields[m], property)

\* Model.changed
changed(st, m) ==
    {f \in DOMAIN st.fields[m] :
        NotEqual(st.fields[m][f], Lookup(st.persisted[m], f))}

RECURSIVE OffAll(_, _, _, _)
OffAll(st, e, hs, i) ==
    IF i > Len(hs) THEN st ELSE OffAll(Off(st, e, "change", hs[i]), e, hs, i + 1)

\* Model.set, lines 151-157: drop the subscription on the current value
UnbindKept(st, m, property) == st

Unbind(st, m, property) ==
    LET current == ModelGet(st, m, property)
    IN  IF ~InstanceOfEvents(current) THEN st
        ELSE IF property \notin DOMAIN st.mappedEvents[m]
        THEN Throw(st, "TypeError")
        ELSE [OffAll(st, current, st.mappedEvents[m][property], 1)
                 EXCEPT !.mappedEvents[m][property] = <<>>]

\* Model.set, lines 158-164: subscribe to the new value
BindSkipped(st, m, property, value) == st

Bind(st, m, property, value) ==
    IF st.err # NoErr \/ ~InstanceOfEvents(value) THEN st
    ELSE IF property \notin DOMAIN st.mappedEvents[m]
    THEN Throw(st, "TypeError")
    ELSE LET h == OnHandle(st, value)
             cb == [kind |-> "modelField", owner |-> m, arg |-> property]
         IN [On(st, value, "change", cb) EXCEPT
               !.mappedEvents[m][property] =
                   Append(st.mappedEvents[m][property], h)]

\* a store that computes the flag from the changed fields
StoreComparing(st, m, property, value) ==
    IF st.err # NoErr THEN st
    ELSE LET s1 == [st EXCEPT !.fields[m] = Put(st.fields[m], property, value)]
         IN [s1 EXCEPT !.clean[m] = (changed(s1, m) = {})]

\* Model.set, lines 166-167
Store(st, m, property, value) ==
    IF st.err # NoErr THEN st
    ELSE [st EXCEPT !.fields[m] = Put(st.fields[m], property, value),
                    !.clean[m] = FALSE]

\* the two events in the other order
EmitSwapped(st, m, property) ==
    Trigger(Trigger(st, m, "change:" \o property), m, "change")

\* Model.set, lines 169-170
Emit(st, m, property) ==
    Trigger(Trigger(st, m, "change"), m, "change:" \o property)

\* Model.set
ModelSet(st, m, property, value) ==
    LET s1 == Unbind(st, m, property)
        s2 == Bind(s1, m, property, value)
        s3 == Store(s2, m, property, value)
    IN Emit(s3, m, property)

\* a persist that does not look at the flag
ModelPersistAlways(st, m) ==
    LET s1 == [st EXCEPT !.clean[m] = TRUE,
                         !.persisted[m] = st.fields[m]]
        s2 == Trigger(s1, m, "persist")
    IN IF s2.err # NoErr THEN s2 ELSE [s2 EXCEPT !.val = TRUE]

\* Model.persist
ModelPersist(st, m) ==
    IF st.clean[m] THEN [st EXCEPT !.val = FALSE]
    ELSE LET s1 == [st EXCEPT
                      !.clean[m] = TRUE,
                      !.persisted[m] =
                          [f \in (DOMAIN st.persisted[m]) \cup (DOMAIN st.fields[m])
                             |-> IF f \in DOMAIN st.fields[m]
                                 THEN st.fields[m][f] ELSE st.persisted[m][f]]]
             s2 == Trigger(s1, m, "persist")
         IN IF s2.err # NoErr THEN s2 ELSE [s2 EXCEPT !.val = TRUE]

\* ------------------------------------------------------- class Collection
length(st, c) == Len(st.models[c])

\* Collection.changed
collChanged(st, c) ==
    SelectSeq([i \in 1..Len(st.models[c]) |-> st.fields[st.models[c][i]]["pk"]],
              LAMBDA pk : IndexOf(st.persisted[c], pk) = -1)

all(st, c) == st.models[c]

\* Collection.at: models[index], undefined outside the array
at(st, c, index) ==
    IF index >= 0 /\ index < Len(st.models[c])
    THEN st.models[c][index + 1] ELSE Undefined

\* Collection.get: the state carries the TypeError of a pk that is not in
\* the map, val carries the model
get(st, c, pk) ==
    IF pk \notin DOMAIN st.modelMap[c] THEN Throw(st, "TypeError")
    ELSE [st EXCEPT !.val = at(st, c, st.meta[st.modelMap[c][pk]].index)]

\* Collection.filter with the predicate `m in key`
filter(st, c, key) == SelectSeq(st.models[c], LAMBDA m : m \in key)

\* Collection.add
add(st, c, model) ==
    LET s1 == [st EXCEPT !.models[c] = Append(st.models[c], model)]
        index == Len(s1.models[c]) - 1
    IN  IF model \notin Models THEN Throw(s1, "TypeError")
        ELSE
        LET change == OnHandle(s1, model)
            s2 == On(s1, model, "change",
                     [kind |-> "collChange", owner |-> c, arg |-> model])
            changePK == OnHandle(s2, model)
            s3 == On(s2, model, "change:pk",
                     [kind |-> "collChangePK", owner |-> c, arg |-> model])
            id == <<model, change>>
            s4 == [s3 EXCEPT
                     !.meta = Put(s3.meta, id,
                                  [index |-> index, change |-> change,
                                   changePK |-> changePK]),
                     !.modelMap[c] =
                         Put(s3.modelMap[c], s3.fields[model]["pk"], id),
                     !.clean[c] = FALSE]
            s5 == Trigger(s4, c, "change")
        IN Trigger(s5, c, "append")

\* Collection.remove
remove(st, c, model) ==
    IF st.err # NoErr THEN st ELSE
    LET s1 == [st EXCEPT
                 !.clean[c] = FALSE,
                 !.models[c] = Splice(st.models[c],
                                      IndexOf(st.models[c], model), 1, <<>>)]
    IN  IF model \notin Models THEN Throw(s1, "TypeError")
        ELSE
        LET pk == s1.fields[model]["pk"]
            p == s1.persisted[c]
            s2 == [s1 EXCEPT
                     !.modelMap[c] = Del(s1.modelMap[c], pk),
                     !.persisted[c] = Splice(p, IndexOf(p, pk), 1, <<>>)]
            s3 == rebuildMap(s2, c)
            s4 == Trigger(s3, c, "change")
        IN Trigger(s4, c, "remove")

removeAt(st, c, index) == remove(st, c, at(st, c, index))

removeBy(st, c, pk) ==
    LET g == get(st, c, pk)
    IN IF g.err # NoErr THEN g ELSE remove(st, c, g.val)

RECURSIVE RemoveEach(_, _, _, _)
RemoveEach(st, c, ms, i) ==
    IF i > Len(ms) THEN st ELSE RemoveEach(remove(st, c, ms[i]), c, ms, i + 1)

removeWhere(st, c, key) == RemoveEach(st, c, filter(st, c, key), 1)

\* moveAt without the clamp of newIndex
moveAtUnclamped(st, c, index, offset) ==
    LET model == at(st, c, index)
        cut == Splice(st.models[c], index, 1, <<>>)
        s1 == [st EXCEPT
                 !.models[c] = Splice(cut, index + offset, 0, <<model>>)]
        s2 == rebuildMap(s1, c)
    IN Trigger(s2, c, "change")

\* Collection.moveAt
moveAt(st, c, index, offset) ==
    LET model == at(st, c, index)
        raw == index + offset
        newIndex == IF raw < 0 THEN 0
                    ELSE IF raw > length(st, c) - 1 THEN length(st, c) - 1
                    ELSE raw
        cut == Splice(st.models[c], index, 1, <<>>)
        s1 == [st EXCEPT !.models[c] = Splice(cut, newIndex, 0, <<model>>)]
        s2 == rebuildMap(s1, c)
    IN Trigger(s2, c, "change")

\* Collection.move
move(st, c, model, offset) ==
    moveAt(st, c, IndexOf(st.models[c], model), offset)

\* Collection.moveBy
moveBy(st, c, pk, offset) ==
    IF pk \notin DOMAIN st.modelMap[c] THEN Throw(st, "TypeError")
    ELSE moveAt(st, c, st.meta[st.modelMap[c][pk]].index, offset)

\* Collection.persist: `model.pk` throws on an undefined array element,
\* after the pks before it have been pushed
persist(st, c) ==
    IF st.clean[c] THEN [st EXCEPT !.val = FALSE]
    ELSE LET ms == st.models[c]
             bad == {i \in 1..Len(ms) : ms[i] \notin Models}
             n == IF bad = {} THEN Len(ms)
                  ELSE (CHOOSE i \in bad : \A j \in bad : i <= j) - 1
             s1 == [st EXCEPT
                      !.clean[c] = TRUE,
                      !.persisted[c] =
                          [i \in 1..n |-> st.fields[ms[i]]["pk"]]]
             s2 == IF bad = {} THEN Trigger(s1, c, "persist")
                   ELSE Throw(s1, "TypeError")
         IN IF s2.err # NoErr THEN s2 ELSE [s2 EXCEPT !.val = TRUE]

\* ------------------------------------------------------------ transitions
\* the state after `new FooModel(pk)` / `new CollectedModel(pk)` for every
\* model, `new FooCollection()` for every collection and `new Events()`
InitWith(pkOf) ==
    /\ eventIndex = [e \in Entities |-> 0]
    /\ map = [e \in Entities |-> <<>>]
    /\ events = [e \in Entities |-> <<>>]
    /\ fields = [m \in Models |->
                   [f \in FieldSet |->
                      IF f = "pk" THEN pkOf[m]
                      ELSE IF f = "qux" /\ m \in FooModels THEN "5"
                      ELSE Undefined]]
    /\ mappedEvents = [m \in Models |-> [f \in FieldSet |-> <<>>]]
    /\ persisted = [e \in Models \cup Collections |->
                      IF e \in Models THEN [f \in FieldSet |-> Undefined]
                      ELSE <<>>]
    /\ clean = [e \in Models \cup Collections |-> FALSE]
    /\ models = [c \in Collections |-> <<>>]
    /\ modelMap = [c \in Collections |-> <<>>]
    /\ meta = <<>>
    /\ emitted = <<>>
    /\ called = <<>>
    /\ ret = [op |-> "new", ent |-> Undefined, a1 |-> Undefined,
              a2 |-> Undefined, val |-> Undefined, err |-> NoErr]

DistinctPks == [m \in Models |->
                  CASE m = "m1" -> "a" [] m = "m2" -> "b" [] m = "m3" -> "c"
                    [] OTHER -> "d"]

\* ModelMeta objects that no modelMap refers to are garbage
Live(st) ==
    UNION {{st.modelMap[c][k] : k \in DOMAIN st.modelMap[c]} : c \in Collections}

\* the call returns (or throws): the heap it leaves becomes the state
Commit(st, op, ent, a1, a2) ==
    /\ eventIndex' = st.eventIndex
    /\ map' = st.map
    /\ events' = st.events
    /\ fields' = st.fields
    /\ mappedEvents' = st.mappedEvents
    /\ persisted' = st.persisted
    /\ clean' = st.clean
    /\ models' = st.models
    /\ modelMap' = st.modelMap
    /\ meta' = [id \in Live(st) |-> st.meta[id]]
    /\ emitted' = st.emitted
    /\ called' = st.called
    /\ ret' = [op |-> op, ent |-> ent, a1 |-> a1, a2 |-> a2,
               val |-> st.val, err |-> st.err]

\* handles left on the bus of model m
Room(m, n) == eventIndex[m] + n <= MaxHandle

Offsets == (0 - MaxOffset)..MaxOffset
Members(c) == Range(models[c]) \cap Models

\* ---- a collection of models whose pks are distinct and never reassigned
Adds == (eventIndex["m1"] + eventIndex["m2"] + eventIndex["m3"]) \div 2
IxAdd ==
    \E m \in FooModels \ Members("s") :
        Adds < MaxAdds /\ Commit(add(Cur, "s", m), "add", "s", m, Undefined)
IxRemove ==
    \E m \in Members("s") :
        Commit(remove(Cur, "s", m), "remove", "s", m, Undefined)
IxRemoveAt ==
    \E i \in 0..(Len(models["s"]) - 1) :
        Commit(removeAt(Cur, "s", i), "removeAt", "s", i, Undefined)
IxRemoveBy ==
    \E m \in Members("s") :
        Commit(removeBy(Cur, "s", fields[m]["pk"]), "removeBy", "s",
               fields[m]["pk"], Undefined)
IxRemoveWhere ==
    \E key \in SUBSET FooModels :
        Commit(removeWhere(Cur, "s", key), "removeWhere", "s", key, Undefined)
IxMoveAt ==
    \E i \in 0..(Len(models["s"]) - 1), offset \in Offsets :
        Commit(moveAt(Cur, "s", i, offset), "moveAt", "s", i, offset)
IxMove ==
    \E m \in Members("s"), offset \in Offsets :
        Commit(move(Cur, "s", m, offset), "move", "s", m, offset)
IxMoveBy ==
    \E m \in Members("s"), offset \in Offsets :
        Commit(moveBy(Cur, "s", fields[m]["pk"], offset), "moveBy", "s",
               fields[m]["pk"], offset)
IxModelPersist ==
    \E m \in {"m1"} :
        Commit(ModelPersist(Cur, m), "persist", m, Undefined, Undefined)

InitIx == InitWith(DistinctPks)
NextIx ==
    \/ IxAdd \/ IxRemove \/ IxRemoveAt \/ IxRemoveBy \/ IxRemoveWhere
    \/ IxMoveAt \/ IxMove \/ IxMoveBy \/ IxModelPersist
SpecIx == InitIx /\ [][NextIx]_vars


\* ---- dirty tracking: one collection, m1 is written and persisted, m2 is
\* ---- only a member
Added == (eventIndex["m1"] + eventIndex["m2"]) \div 2
SetQux ==
    \E v \in {"5", "7"} :
        Commit(ModelSet(Cur, "m1", "qux", v), "set", "m1", "qux", v)
SetPk ==
    \E v \in {"a", "c"} :
        Commit(ModelSet(Cur, "m1", "pk", v), "set", "m1", "pk", v)
PersistModel ==
    Commit(ModelPersist(Cur, "m1"), "persist", "m1", Undefined, Undefined)
PersistColl ==
    Commit(persist(Cur, "s"), "persist", "s", Undefined, Undefined)
Add ==
    \E m \in {"m1", "m2"} \ Members("s") :
        Added < MaxTracked /\ Commit(add(Cur, "s", m), "add", "s", m, Undefined)
Remove ==
    \E m \in Members("s") :
        Commit(remove(Cur, "s", m), "remove", "s", m, Undefined)
MoveAt ==
    \E i \in 0..(Len(models["s"]) - 1), offset \in {-1, 1} :
        Commit(moveAt(Cur, "s", i, offset), "moveAt", "s", i, offset)

Init == InitWith(DistinctPks)
Next ==
    \/ SetQux \/ SetPk \/ PersistModel \/ PersistColl
    \/ Add \/ Remove \/ MoveAt
Spec == Init /\ [][Next]_vars

\* ---- nesting: r.foos holds a collection, a plain value or undefined
Binds == eventIndex["s"] + eventIndex["t"]
NestSetFoos ==
    \E v \in {"s", "t", Undefined, "x"} :
        /\ v \in Collections => Binds < MaxBinds
        /\ Commit(ModelSet(Cur, "r", "foos", v), "set", "r", "foos", v)
NestPersist ==
    Commit(ModelPersist(Cur, "r"), "persist", "r", Undefined, Undefined)
NestAdd ==
    \E c \in Collections : \E m \in {"m1"} \ Members(c) :
        Room(m, 2) /\ Commit(add(Cur, c, m), "add", c, m, Undefined)
NestRemove ==
    \E c \in Collections : \E m \in Members(c) :
        Commit(remove(Cur, c, m), "remove", c, m, Undefined)
NestMoveAt ==
    \E c \in Collections : \E i \in 0..(Len(models[c]) - 1), offset \in {-1, 1} :
        Commit(moveAt(Cur, c, i, offset), "moveAt", c, i, offset)
NestSetQux ==
    \E v \in {"5", "7"} :
        Commit(ModelSet(Cur, "m1", "qux", v), "set", "m1", "qux", v)

InitNest == InitWith(DistinctPks)
NextNest ==
    \/ NestSetFoos \/ NestPersist \/ NestAdd \/ NestRemove \/ NestMoveAt
    \/ NestSetQux
SpecNest == InitNest /\ [][NextNest]_vars

\* ---- a bare Events object with spies as callbacks; a spy is named by the
\* ---- event name it is registered under and the handle that returned
Names == {"foo", "bar"}
BusOn ==
    \E name \in Names :
        /\ Room("ev", 1)
        /\ Commit(On(Cur, "ev", name,
                     [kind |-> "spy", owner |-> "ev",
                      arg |-> [name |-> name, h |-> OnHandle(Cur, "ev")]]),
                  "on", "ev", name, OnHandle(Cur, "ev"))
BusOff ==
    \E name \in Names, h \in 1..(MaxHandle + 1) :
        Commit(Off(Cur, "ev", name, h), "off", "ev", name, h)
BusTrigger ==
    \E name \in Names :
        Commit(Trigger(Cur, "ev", name), "trigger", "ev", name, Undefined)

InitBus == InitWith(DistinctPks)
NextBus == BusOn \/ BusOff \/ BusTrigger
SpecBus == InitBus /\ [][NextBus]_vars

\* ---- a bare Events object whose listeners subscribe and unsubscribe while
\* ---- an event is being delivered; off is only called with handles that
\* ---- are subscribed at the time the listener is written
Listed(name) ==
    IF name \in DOMAIN map["ev"] THEN map["ev"][name] ELSE <<>>
ReOn ==
    /\ Room("ev", 1)
    /\ \E cb \in {[kind |-> "spy", owner |-> "ev",
                    arg |-> [name |-> "foo", h |-> OnHandle(Cur, "ev")]],
                   [kind |-> "spyOn", owner |-> "ev",
                    arg |-> [name |-> "foo", h |-> OnHandle(Cur, "ev")]]}
               \cup {[kind |-> "spyOff", owner |-> "ev",
                       arg |-> [name |-> "foo", h |-> OnHandle(Cur, "ev")],
                       target |-> t] :
                         t \in Range(Listed("foo"))
                                 \cup {OnHandle(Cur, "ev")}} :
          Commit(On(Cur, "ev", "foo", cb), "on", "ev", "foo",
                 OnHandle(Cur, "ev"))
ReOff ==
    \E h \in Range(Listed("foo")) :
        Commit(Off(Cur, "ev", "foo", h), "off", "ev", "foo", h)
ReTrigger ==
    /\ Room("ev", Len(Listed("foo")))
    /\ Commit(Trigger(Cur, "ev", "foo"), "trigger", "ev", "foo", Undefined)

InitRe == InitWith(DistinctPks)
NextRe == ReOn \/ ReOff \/ ReTrigger
SpecRe == InitRe /\ [][NextRe]_vars

\* ---- wiring: the record r and the record m1 are added to and removed from
\* ---- the collection s, and r.foos holds a collection or nothing
WireSetFoos ==
    \E v \in {"s", "t", Undefined} :
        /\ v \in Collections => Binds < MaxBinds
        /\ Commit(ModelSet(Cur, "r", "foos", v), "set", "r", "foos", v)
WireSetQux ==
    \E v \in {"5", "7"} :
        Commit(ModelSet(Cur, "m1", "qux", v), "set", "m1", "qux", v)
WireAdd ==
    \E m \in {"m1", "r"} \ Members("s") :
        Room(m, 3) /\ Commit(add(Cur, "s", m), "add", "s", m, Undefined)
WireRemove ==
    \E m \in Members("s") :
        Commit(remove(Cur, "s", m), "remove", "s", m, Undefined)
WireMoveAt ==
    \E i \in 0..(Len(models["s"]) - 1) :
        Commit(moveAt(Cur, "s", i, 1), "moveAt", "s", i, 1)
WirePersist ==
    Commit(persist(Cur, "s"), "persist", "s", Undefined, Undefined)

InitWire == InitWith(DistinctPks)
NextWire ==
    \/ WireSetFoos \/ WireSetQux \/ WireAdd \/ WireRemove \/ WireMoveAt
    \/ WirePersist
SpecWire == InitWire /\ [][NextWire]_vars

\* ---- one record on its own: typed values for the declared fields, and a
\* ---- field name `zip` that no class declares
RecValues(f) ==
    CASE f = "pk" -> {"a", "c"}
      [] f = "qux" -> {"5", "7", NaN}
      [] f = "zip" -> {"1", "s"}
RecSet ==
    \E f \in {"pk", "qux", "zip"} : \E v \in RecValues(f) :
        Commit(ModelSet(Cur, "m1", f, v), "set", "m1", f, v)
RecGet ==
    \E f \in {"pk", "qux", "zip"} :
        Commit([Cur EXCEPT !.val = ModelGet(Cur, "m1", f)],
               "get", "m1", f, Undefined)
RecPersist ==
    Commit(ModelPersist(Cur, "m1"), "persist", "m1", Undefined, Undefined)

InitRec == InitWith(DistinctPks)
NextRec == RecSet \/ RecGet \/ RecPersist
SpecRec == InitRec /\ [][NextRec]_vars

\* ---- a collection used with arbitrary records: m2 is constructed with
\* ---- m1's pk or with another one, records are added whether or not they
\* ---- are members, and removed whether or not they are members
AnyAdd ==
    \E m \in {"m1", "m2"} :
        Room(m, 2) /\ Commit(add(Cur, "s", m), "add", "s", m, Undefined)
AnyRemove ==
    \E m \in {"m1", "m2"} :
        Commit(remove(Cur, "s", m), "remove", "s", m, Undefined)
AnyMoveAt ==
    \E i \in 0..(Len(models["s"]) - 1), offset \in {-1, 1} :
        Commit(moveAt(Cur, "s", i, offset), "moveAt", "s", i, offset)
AnyPersist ==
    Commit(persist(Cur, "s"), "persist", "s", Undefined, Undefined)
AnySetQux ==
    \E v \in {"5", "7"} :
        Commit(ModelSet(Cur, "m1", "qux", v), "set", "m1", "qux", v)

InitAny == \E p \in {"a", "b"} : InitWith([DistinctPks EXCEPT !["m2"] = p])
NextAny == AnyAdd \/ AnyRemove \/ AnyMoveAt \/ AnyPersist \/ AnySetQux
SpecAny == InitAny /\ [][NextAny]_vars

\* ---- positions inside and outside the array
Positions == -1..Len(models["s"])
PosAdd ==
    \E m \in {"m1", "m2"} \ Members("s") :
        /\ Room(m, 2) /\ Len(models["s"]) < MaxItems
        /\ Commit(add(Cur, "s", m), "add", "s", m, Undefined)
PosAt ==
    \E i \in Positions :
        Commit([Cur EXCEPT !.val = at(Cur, "s", i)], "at", "s", i, Undefined)
PosMoveAt ==
    \E i \in Positions, offset \in {-1, 1} :
        /\ Len(models["s"]) < MaxItems
        /\ Commit(moveAt(Cur, "s", i, offset), "moveAt", "s", i, offset)
PosMove ==
    \E m \in {"m1", "m2"}, offset \in {-1, 1} :
        /\ Len(models["s"]) < MaxItems
        /\ Commit(move(Cur, "s", m, offset), "move", "s", m, offset)
PosRemoveAt ==
    \E i \in Positions :
        Commit(removeAt(Cur, "s", i), "removeAt", "s", i, Undefined)
PosPersist ==
    Commit(persist(Cur, "s"), "persist", "s", Undefined, Undefined)

InitPos == InitWith(DistinctPks)
NextPos ==
    PosAdd \/ PosAt \/ PosMoveAt \/ PosMove \/ PosRemoveAt \/ PosPersist
SpecPos == InitPos /\ [][NextPos]_vars

\* ------------------------------------------------------------- properties
PkOf(m) == fields[m]["pk"]

\* C1: with distinct pks that are never reassigned, the keys of the index
\* are the members' pks, each entry's position is the member's position in
\* all(), get(pk) and at(position) return the member, and the pk of a
\* record that is not (or no longer) a member does not resolve.
C1_IndexMirrorsItems ==
    LET ms == all(Cur, "s")
    IN /\ DOMAIN modelMap["s"] = {PkOf(ms[i]) : i \in 1..Len(ms)}
       /\ \A i \in 1..Len(ms) :
            /\ meta[modelMap["s"][PkOf(ms[i])]].index = i - 1
            /\ get(Cur, "s", PkOf(ms[i])).err = NoErr
            /\ get(Cur, "s", PkOf(ms[i])).val = ms[i]
            /\ at(Cur, "s", i - 1) = ms[i]
       /\ \A m \in FooModels \ Range(ms) :
            get(Cur, "s", PkOf(m)).err = "TypeError"

\* remove(m1) from [m1, m2, m3] has shifted m2 and m3
C1_Witness ==
    /\ ret.op = "remove" /\ ret.a1 = "m1"
    /\ models["s"] = <<"m2", "m3">>
    /\ eventIndex["m1"] > 0

\* the sequence s without its element at 1-based position i
Without(s, i) == [j \in 1..(Len(s) - 1) |-> IF j < i THEN s[j] ELSE s[j + 1]]
\* the sequence s with x put at 1-based position i
WithAt(s, i, x) ==
    [j \in 1..(Len(s) + 1) |->
        IF j < i THEN s[j] ELSE IF j = i THEN x ELSE s[j - 1]]

\* the 1-based position the last move call named, in the state before it
MovedFrom(r, ms) ==
    CASE r.op = "moveAt" -> r.a1 + 1
      [] r.op = "move" -> CHOOSE i \in 1..Len(ms) : ms[i] = r.a1
      [] r.op = "moveBy" -> CHOOSE i \in 1..Len(ms) : PkOf(ms[i]) = r.a1

\* C3: moveAt(index, offset) at a valid index takes the item out and puts it
\* back at max(0, min(length-1, index+offset)); move and moveBy do the same
\* at the record's position.
C3_MoveIsClampedReorder ==
    [][ret'.op \in {"moveAt", "move", "moveBy"} =>
        LET ms == models["s"]
            from == MovedFrom(ret', ms)
            to == Max(0, Min(Len(ms) - 1, (from - 1) + ret'.a2)) + 1
        IN /\ ret'.err = NoErr
           /\ models'["s"] = WithAt(Without(ms, from), to, ms[from])]_vars

\* a move of the middle item past the end of three
C3_Witness ==
    /\ ret.op = "moveAt" /\ ret.a1 = 1 /\ ret.a2 = 2
    /\ models["s"] = <<"m1", "m3", "m2">>

\* the entries of a trigger log that object e emitted
EmittedBy(log, e) == SelectSeq(log, LAMBDA x : x.ent = e)
Mutating == {"set", "add", "remove", "moveAt", "move", "moveBy"}

\* C2: after a set on a record and after add, remove and moveAt on a
\* collection the object is dirty, also when it was clean before the call.
C2_MutationMarksDirty ==
    (ret.op \in Mutating /\ ret.err = NoErr) => ~clean[ret.ent]

\* C4: a set on a record that is not a member of the collection (removed
\* from it, or never added) leaves the collection's flag, persisted pks and
\* index alone and emits nothing on the collection.
C4_RemovedMemberIsReleased ==
    [][(ret'.op = "set" /\ ret'.ent \notin Members("s")) =>
        /\ clean'["s"] = clean["s"]
        /\ persisted'["s"] = persisted["s"]
        /\ modelMap'["s"] = modelMap["s"]
        /\ EmittedBy(emitted', "s") = <<>>]_vars

\* the outcome of a persist call on e in the current state
PersistOf(e) == IF e \in Models THEN ModelPersist(Cur, e) ELSE persist(Cur, e)

\* C7: persist on a dirty object returns true, clears the flag and emits
\* `persist` once; a second persist right after it returns false, emits
\* nothing and changes neither fields, items, snapshots nor flags; so does
\* any persist on a clean object.
C7_PersistIdempotent ==
    /\ [](\A e \in Models \cup Collections :
            clean[e] => PersistOf(e) = [Cur EXCEPT !.val = FALSE])
    /\ [][ret'.op = "persist" =>
            LET e == ret'.ent IN
            /\ ~clean[e] =>
                 /\ ret'.val = TRUE
                 /\ clean'[e]
                 /\ Len(emitted') = 1
                 /\ emitted'[1].ent = e /\ emitted'[1].name = "persist"
            /\ (ret.op = "persist" /\ ret.ent = e) =>
                 /\ ret'.val = FALSE
                 /\ emitted' = <<>>
                 /\ fields' = fields /\ models' = models
                 /\ persisted' = persisted /\ clean' = clean]_vars

\* the second of two persist calls on a collection with a member
C7_Witness ==
    /\ ret.op = "persist" /\ ret.ent = "s" /\ ret.val = FALSE
    /\ Len(models["s"]) > 0 /\ persisted["s"] # <<>>

\* C8: every model and collection starts dirty, and the flag goes from
\* dirty to clean only in a persist call on that object.
C8_OnlyPersistCleans ==
    /\ \A e \in Models \cup Collections : ~clean[e]
    /\ [][\A e \in Models \cup Collections :
            (~clean[e] /\ clean'[e]) =>
                (ret'.op = "persist" /\ ret'.ent = e)]_vars

\* a set that puts back the persisted value leaves the record dirty
C8_Witness ==
    /\ ret.op = "set" /\ ret.ent = "m1" /\ ret.a1 = "qux"
    /\ changed(Cur, "m1") = {}
    /\ ~clean["m1"]

ChangedOf(m) == changed(Cur, m)

\* C9: a set(f, v) call triggers `change` and then `change:f` on the
\* record, once each, with v already stored; if v is not the persisted value
\* of f, f is among the changed fields afterwards.
C9_SetEmitsChangeThenField ==
    [][ret'.op = "set" =>
        LET m == ret'.ent
            f == ret'.a1
            v == ret'.a2
            own == EmittedBy(emitted', m)
        IN /\ Len(own) = 2
           /\ own[1].name = "change" /\ own[2].name = "change:" \o f
           /\ own[1].snap[f] = v /\ own[2].snap[f] = v
           /\ \A mm \in Models :
                (mm = m /\ v # persisted'[m][f]) => f \in ChangedOf(mm)']_vars

\* a set of the value the field already has, on a persisted member
C9_Witness ==
    /\ ret.op = "set" /\ ret.a1 = "qux" /\ ret.a2 = "5"
    /\ persisted["m1"]["qux"] = "5" /\ fields["m1"]["pk"] = persisted["m1"]["pk"]
    /\ Len(emitted) = 3 /\ ret.err = NoErr

IsEvent(x, e, name) == x.ent = e /\ x.name = name

\* C5: when r.foos is collection c, an operation that triggers `change` on
\* c leaves r dirty and triggers `change` and then `change:foos` on r.
C5_Cascade ==
    [][\A c \in Collections :
         (fields["r"]["foos"] = c /\ fields'["r"]["foos"] = c) =>
            \A i \in 1..Len(emitted') :
               IsEvent(emitted'[i], c, "change") =>
                  /\ ~clean'["r"]
                  /\ i + 2 <= Len(emitted')
                  /\ IsEvent(emitted'[i + 1], "r", "change")
                  /\ IsEvent(emitted'[i + 2], "r", "change:foos")
                  /\ ~emitted'[i + 1].clean]_vars

\* an add to the collection of a record persisted with that collection
C5_Witness ==
    /\ ret.op = "add" /\ ret.ent = "s"
    /\ fields["r"]["foos"] = "s" /\ persisted["r"]["foos"] = "s"
    /\ ~clean["r"]
    /\ Len(emitted) = 4

\* the `change` subscriptions that r holds on object e
HeldOn(e) ==
    IF "change" \notin DOMAIN map[e] THEN <<>>
    ELSE SelectSeq(map[e]["change"],
                   LAMBDA h : /\ h \in DOMAIN events[e]
                              /\ events[e][h].kind = "modelField"
                              /\ events[e][h].owner = "r")

\* C6: r holds one `change` subscription, on the current value of foos when
\* that is a collection, and none on any other object; an operation on
\* other objects that triggers nothing on the current value of foos neither
\* changes r's flag nor triggers anything on r.
C6_DetachUnsubscribes ==
    /\ [](\A c \in Collections :
            /\ Len(HeldOn(c)) = (IF fields["r"]["foos"] = c THEN 1 ELSE 0)
            /\ fields["r"]["foos"] = c => mappedEvents["r"]["foos"] = HeldOn(c))
    /\ [](fields["r"]["foos"] \notin Collections =>
            mappedEvents["r"]["foos"] = <<>>)
    /\ [][(/\ ret'.ent # "r"
           /\ \A i \in 1..Len(emitted') :
                 emitted'[i].ent # fields["r"]["foos"]) =>
            /\ clean'["r"] = clean["r"]
            /\ EmittedBy(emitted', "r") = <<>>]_vars

\* r was given s, then something else, was persisted, and s is added to
C6_Witness ==
    /\ ret.op = "add" /\ ret.ent = "s"
    /\ fields["r"]["foos"] # "s" /\ eventIndex["s"] > 0
    /\ persisted["r"]["foos"] = fields["r"]["foos"]
    /\ clean["r"]

Subscribed(name) ==
    IF name \in DOMAIN map["ev"] THEN Range(map["ev"][name]) ELSE {}

\* C10: off(name, handle) with a name that has no subscriptions, or a
\* handle that is not subscribed under that name, changes neither the
\* subscription lists nor the callback table.
C10_OffAbsentIsNoOp ==
    [][(ret'.op = "off" /\ ret'.a2 \notin Subscribed(ret'.a1)) =>
          (map' = map /\ events' = events)]_vars

\* the increasing sequence of the integers in S
Ascending(S) ==
    CHOOSE q \in [1..Cardinality(S) -> S] :
        \A i, j \in 1..Cardinality(S) : i < j => q[i] < q[j]

\* the handles that on returned for `name` and that no off call has deleted
Registered(name) ==
    {h \in DOMAIN events["ev"] : events["ev"][h].arg.name = name}

\* C11: trigger(name) runs every callback registered under `name` and not
\* removed by off, once each and in subscription order, runs no callback of
\* another name, and returns normally (also with no subscriber).
C11_TriggerRunsSubscribers ==
    [][ret'.op = "trigger" =>
         /\ ret'.err = NoErr
         /\ Len(called') = Cardinality(Registered(ret'.a1))
         /\ \A i \in 1..Len(called') :
               /\ called'[i].name = ret'.a1
               /\ called'[i].h = Ascending(Registered(ret'.a1))[i]]_vars

\* C12: a clean record has no changed field: a field whose value differs
\* from its persisted value implies that the record is dirty, and right
\* after a persist that returned true `changed` is empty.
C12_CleanHasNoChangedField ==
    \A m \in Models : clean[m] => changed(Cur, m) = {}

\* C13: no record occurs twice in the items and no two items share a pk,
\* whatever records are added, removed and moved.
C13_NoDuplicateItems ==
    \A i, j \in 1..Len(models["s"]) :
        i < j => /\ models["s"][i] # models["s"][j]
                 /\ PkOf(models["s"][i]) # PkOf(models["s"][j])

\* the last call named a position outside [0, length), or a record that is
\* not in the array, in the state before it
OutOfRange(r, ms) ==
    \/ r.op \in {"at", "moveAt", "removeAt"} /\ r.a1 \notin 0..(Len(ms) - 1)
    \/ r.op = "move" /\ r.a1 \notin Range(ms)

\* C14: at, moveAt, removeAt with a position outside [0, length), and move
\* of a record that is not a member, fail, and leave items, index,
\* persisted pks and flag as they were and trigger nothing.
C14_OutOfRangeFails ==
    [][OutOfRange(ret', models["s"]) =>
          /\ ret'.err # NoErr
          /\ models' = models /\ modelMap' = modelMap /\ meta' = meta
          /\ persisted' = persisted /\ clean' = clean
          /\ emitted' = <<>>]_vars

\* the pks of the records in a snapshot of the items
PksOf(ms) == {PkOf(ms[i]) : i \in 1..Len(ms)}

\* C15: add triggers `change` then `append`, once each, with the record in
\* the items and in the index; every removal of a member triggers `change`
\* then `remove`, once each, with the record gone and the index rebuilt; a
\* move triggers one `change` and nothing else.
C15_CollectionEventOrder ==
    [][LET own == EmittedBy(emitted', "s")
           old == models["s"]
           new == models'["s"]
       IN /\ ret'.op = "add" =>
               /\ Len(own) = 2
               /\ own[1].name = "change" /\ own[2].name = "append"
               /\ \A k \in 1..2 :
                     /\ own[k].snap = Append(old, ret'.a1)
                     /\ PkOf(ret'.a1) \in own[k].keys
          /\ ret'.op \in {"remove", "removeAt", "removeBy", "removeWhere"} =>
               LET n == Len(old) - Len(new)
               IN /\ Len(own) = 2 * n
                  /\ \A k \in 1..n :
                        /\ own[2 * k - 1].name = "change"
                        /\ own[2 * k].name = "remove"
                        /\ own[2 * k - 1].snap = own[2 * k].snap
                        /\ Len(own[2 * k].snap) = Len(old) - k
                        /\ own[2 * k - 1].keys = PksOf(own[2 * k].snap)
                        /\ own[2 * k].keys = PksOf(own[2 * k].snap)
                  /\ (n > 0 => own[2 * n].snap = new)
                  /\ (ret'.op # "removeWhere" => n = 1)
          /\ ret'.op \in {"moveAt", "move", "moveBy"} =>
               /\ Len(own) = 1
               /\ own[1].name = "change" /\ own[1].snap = new]_vars

\* C16: get and set of a field name that was never declared fail; the
\* failed set adds nothing to the fields, leaves the flag and triggers
\* nothing.
C16_UnknownFieldFails ==
    [][(ret'.op \in {"get", "set"} /\ ret'.a1 \notin FieldSet) =>
          /\ ret'.err # NoErr
          /\ fields' = fields /\ clean' = clean
          /\ emitted' = <<>>]_vars

\* the index of collection s resolves exactly the members' pks, each to the
\* member and to its position
IndexConsistent ==
    LET ms == all(Cur, "s")
    IN /\ DOMAIN modelMap["s"] = PksOf(ms)
       /\ \A i \in 1..Len(ms) :
            /\ meta[modelMap["s"][PkOf(ms[i])]].index = i - 1
            /\ get(Cur, "s", PkOf(ms[i])).val = ms[i]

\* C17: a set of a member's pk to a value that no other member uses returns
\* normally and leaves the index consistent (the new pk resolves to the
\* member, the old one does not), and the moveAt and remove calls on the
\* collection return normally.
C17_PkChangeKeepsIndex ==
    [][/\ (ret'.op = "set" /\ ret'.a1 = "pk" /\ ret'.ent \in Members("s")) =>
             (ret'.err = NoErr /\ IndexConsistent')
       /\ (ret'.op \in {"moveAt", "remove"}) => ret'.err = NoErr]_vars

\* the sequence p without the first occurrence of pk, p itself if pk is
\* not in it
Dropped(p, pk) ==
    IF IndexOf(p, pk) = -1 THEN p ELSE Without(p, IndexOf(p, pk) + 1)

\* C18: a set of a field other than pk on a member, and a remove of a
\* record, take only that record's pk out of the persisted pks, and nothing
\* when the pk is not among them (stated for the calls that return normally).
C18_PersistedKeysFrame ==
    [][/\ (/\ ret'.op = "set" /\ ret'.a1 # "pk" /\ ret'.err = NoErr
           /\ ret'.ent \in Members("s")) =>
             persisted'["s"] = Dropped(persisted["s"], PkOf(ret'.ent))
       /\ (ret'.op = "remove" /\ ret'.err = NoErr) =>
             persisted'["s"] = Dropped(persisted["s"], PkOf(ret'.a1))]_vars

\* C19: a trigger calls every listener that was subscribed under the name
\* when the trigger started exactly once, whatever the listeners subscribe
\* or unsubscribe during the delivery.
C19_TriggerDeliversToSnapshot ==
    [][ret'.op = "trigger" =>
          \A h \in Subscribed(ret'.a1) :
              Cardinality({i \in 1..Len(called') : called'[i].h = h}) = 1]_vars

\* the places (name, position) where handle h is listed
ListedAt(h) ==
    UNION {{<<name, i>> : i \in {j \in 1..Len(map["ev"][name]) :
                                    map["ev"][name][j] = h}} :
             name \in DOMAIN map["ev"]}

\* C20: every handle listed under a name has a callback, every callback is
\* listed exactly once, under one name, and each handle returned by on is
\* larger than every handle returned before.
C20_BusTables ==
    /\ [](/\ \A name \in DOMAIN map["ev"] :
                Range(map["ev"][name]) \subseteq DOMAIN events["ev"]
          /\ \A h \in DOMAIN events["ev"] : Cardinality(ListedAt(h)) = 1)
    /\ [][ret'.op = "on" =>
             (ret'.a2 > eventIndex["ev"] /\ ret'.a2 = eventIndex'["ev"])]_vars

\* the entities that x holds: the members of a collection, the values of a
\* record's fields
Holds(x) ==
    IF x \in Collections THEN Range(models[x]) \cap Entities
    ELSE IF x \in Models
    THEN {fields[x][f] : f \in DOMAIN fields[x]} \cap Entities
    ELSE {}

RECURSIVE Within(_, _)
Within(S, n) ==
    IF n = 0 THEN S ELSE Within(S \cup UNION {Holds(y) : y \in S}, n - 1)

\* no entity is held, directly or through others, by itself
Acyclic ==
    \A x \in Entities : x \notin Within(Holds(x), Cardinality(Entities))

\* C21: when no entity holds itself before or after the call, a set, add,
\* remove, move or persist runs a finite chain of callbacks: it does not
\* exhaust the call stack.
C21_AcyclicCallsReturn ==
    [][(Acyclic /\ Acyclic') => ret'.err # "RangeError"]_vars

\* C22: remove(record) with a record that is not a member leaves the items,
\* the index and the persisted pks of the collection as they were.
C22_RemoveAbsentIsNoOp ==
    [][(ret'.op = "remove" /\ ret'.a1 \notin Range(models["s"])) =>
          /\ models'["s"] = models["s"]
          /\ modelMap'["s"] = modelMap["s"]
          /\ persisted'["s"] = persisted["s"]
          /\ \A id \in Live(Cur) : id \in DOMAIN meta' /\ meta'[id] = meta[id]]_vars
====
